---- MODULE Spec2Model ----
(***************************************************************************)
(* Model of the destroy / apply event pipeline of cli-utils:               *)
(*   - inventory.SplitInfos / SplitUnstructureds (pure functions),         *)
(*   - Destroyer.Run with its prune-event transformer goroutine,           *)
(*   - BasicPrinter.Print as the consumer of the event channel,            *)
(*   - the Applier and the prune engine, whose code is not part of the     *)
(*     source subset and which are modelled from the design document.      *)
(***************************************************************************)
EXTENDS Naturals, Integers, Sequences, FiniteSets, TLC

\* ------------------------------------------------------------------ bounds
\* Longest input batch handed to SplitInfos / SplitUnstructureds.
MaxBatch == 3
\* Longest manifest batch read by one run of the scenario.
MaxInfos == 3
\* Number of consecutive runs (apply or destroy) against the same cluster.
MaxRuns == 2

\* ------------------------------------------------------ manifest entries
\* The value of the inventory label is a sequence of characters, so that
\* strings.TrimSpace is computed and not assumed.
SP == " "
NoLabel == [exists |-> FALSE, value |-> <<>>]
Label(v) == [exists |-> TRUE, value |-> v]

\* A nil *resource.Info / nil *unstructured.Unstructured.
NilInfo == [name |-> "nil", isNil |-> TRUE, hasObj |-> FALSE, label |-> NoLabel]
\* A non-nil *resource.Info whose Object field is nil.
NoObjInfo == [name |-> "noobj", isNil |-> FALSE, hasObj |-> FALSE, label |-> NoLabel]
Info(n, l) == [name |-> n, isNil |-> FALSE, hasObj |-> TRUE, label |-> l]

\* The inventory marker of the application, a second marker, an object whose
\* inventory label is blank, and two ordinary resources.
InvObj == Info("inv", Label(<<"x">>))
InvObj2 == Info("inv2", Label(<<SP, "y">>))
BlankObj == Info("blank", Label(<<SP>>))
ResA == Info("a", NoLabel)
ResB == Info("b", NoLabel)

\* The ordinary resources, by ObjMetadata.
Objs == {"a", "b"}

RECURSIVE SeqsUpTo(_, _)
SeqsUpTo(S, n) ==
    IF n = 0 THEN {<<>>}
    ELSE LET shorter == SeqsUpTo(S, n - 1)
         IN  shorter \cup {Append(s, x) : s \in {t \in shorter : Len(t) = n - 1}, x \in S}

Range(s) == {s[i] : i \in 1..Len(s)}

\* ------------------------------------------------- inventory: pure functions
RECURSIVE TrimLeft(_)
TrimLeft(s) == IF s # <<>> /\ Head(s) = SP THEN TrimLeft(Tail(s)) ELSE s

RECURSIVE TrimRight(_)
TrimRight(s) ==
    IF s # <<>> /\ s[Len(s)] = SP THEN TrimRight(SubSeq(s, 1, Len(s) - 1)) ELSE s

\* strings.TrimSpace
TrimSpace(s) == TrimRight(TrimLeft(s))

\* retrieveInventoryLabel: (label, err).
retrieveInventoryLabel(obj) ==
    IF obj.isNil THEN [label |-> <<>>, err |-> TRUE]
    ELSE IF ~obj.label.exists THEN [label |-> <<>>, err |-> TRUE]
    ELSE [label |-> TrimSpace(obj.label.value), err |-> FALSE]

\* Faulty variant of IsInventoryObject: any object that carries the label key counts.
IsInventoryObjectAnyValue(obj) ==
    ~obj.isNil /\ obj.label.exists

\* IsInventoryObject
IsInventoryObject(obj) ==
    IF obj.isNil THEN FALSE
    ELSE LET r == retrieveInventoryLabel(obj)
         IN  ~r.err /\ Len(r.label) > 0

NoErr == [kind |-> "nil", templates |-> <<>>]
NoInventoryObjError == [kind |-> "NoInventoryObjError", templates |-> <<>>]
MultipleInventoryObjError(invs) ==
    [kind |-> "MultipleInventoryObjError", templates |-> invs]

\* The common tail of SplitInfos and SplitUnstructureds.
SplitResult(invs, resources) ==
    IF Len(invs) = 0
    THEN [inv |-> NilInfo, resources |-> resources, err |-> NoInventoryObjError]
    ELSE IF Len(invs) > 1
    THEN [inv |-> NilInfo, resources |-> resources,
          err |-> MultipleInventoryObjError(invs)]
    ELSE [inv |-> invs[1], resources |-> resources, err |-> NoErr]

RECURSIVE SplitInfosLoop(_, _, _)
SplitInfosLoop(infos, invs, resources) ==
    IF infos = <<>> THEN SplitResult(invs, resources)
    ELSE LET info == Head(infos)
         IN  IF info.isNil \/ ~info.hasObj
             THEN SplitInfosLoop(Tail(infos), invs, resources)
             ELSE IF IsInventoryObject(info)
             THEN SplitInfosLoop(Tail(infos), Append(invs, info), resources)
             ELSE SplitInfosLoop(Tail(infos), invs, Append(resources, info))

\* Faulty variant of SplitInfos: on several markers the first one is returned.
SplitInfosFirstWins(infos) ==
    LET r == SplitInfosLoop(infos, <<>>, <<>>)
    IN  IF r.err.kind = "MultipleInventoryObjError"
        THEN [inv |-> r.err.templates[1], resources |-> r.resources, err |-> NoErr]
        ELSE r

\* inventory.SplitInfos
SplitInfos(infos) == SplitInfosLoop(infos, <<>>, <<>>)

\* inventory.FindInventoryObj: the first entry that is an inventory object;
\* nil entries and entries without Object are passed over.
RECURSIVE FindInventoryObj(_)
FindInventoryObj(infos) ==
    IF infos = <<>> THEN NilInfo
    ELSE LET info == Head(infos)
         IN  IF info.isNil \/ ~info.hasObj
             THEN FindInventoryObj(Tail(infos))
             ELSE IF IsInventoryObject(info)
             THEN info
             ELSE FindInventoryObj(Tail(infos))

RECURSIVE SplitUnstructuredsLoop(_, _, _)
SplitUnstructuredsLoop(objs, invs, resources) ==
    IF objs = <<>> THEN SplitResult(invs, resources)
    ELSE LET obj == Head(objs)
         IN  IF IsInventoryObject(obj)
             THEN SplitUnstructuredsLoop(Tail(objs), Append(invs, obj), resources)
             ELSE SplitUnstructuredsLoop(Tail(objs), invs, Append(resources, obj))

\* inventory.SplitUnstructureds
SplitUnstructureds(objs) == SplitUnstructuredsLoop(objs, <<>>, <<>>)


\* ------------------------------------------------------------------ events
\* event.Event: a discriminated union; unused fields hold "-".
Ev(t, s, op, o, e) == [type |-> t, sub |-> s, op |-> op, obj |-> o, err |-> e]
NoEvent == Ev("-", "-", "-", "-", "-")
InitEvent == Ev("Init", "-", "-", "-", "-")
ErrorEvent(e) == Ev("Error", "-", "-", "-", e)
ApplyUpdate(op, o) == Ev("Apply", "ResourceUpdate", op, o, "-")
ApplyCompleted == Ev("Apply", "Completed", "-", "-", "-")
PruneUpdate(op, o) == Ev("Prune", "ResourceUpdate", op, o, "-")
PruneCompleted == Ev("Prune", "Completed", "-", "-", "-")
\* The events of the status poller: the status of one resource, an error,
\* and the two ends of polling.
StatusUpdate(s, o) == Ev("Status", "ResourceUpdate", s, o, "-")
StatusError(o) == Ev("Status", "Error", "-", o, "poll")
StatusCompleted == Ev("Status", "Completed", "-", "-", "-")
StatusAborted == Ev("Status", "Aborted", "-", "-", "-")
DeleteUpdate(op, o) == Ev("Delete", "ResourceUpdate", op, o, "-")
DeleteCompleted == Ev("Delete", "Completed", "-", "-", "-")

DryRunStrategies == {"None", "ClientOnly", "ServerSide"}

\* The manifest batches a run of the scenario may read: no object twice, and
\* the only marker of a one-marker batch is the application's own.
ScenarioBatches ==
    {b \in SeqsUpTo({InvObj, InvObj2, ResA, ResB}, MaxInfos) :
        /\ \A i, j \in 1..Len(b) : i # j => b[i] # b[j]
        /\ (InvObj2 \in Range(b) => InvObj \in Range(b))}

RECURSIVE Names(_)
Names(s) == IF s = <<>> THEN <<>> ELSE <<Head(s).name>> \o Names(Tail(s))

VARIABLES
    \* --- pure-function harness
    batch,       \* the input batch
    splitFn,     \* "none" | "SplitInfos" | "SplitUnstructureds"
    splitOut,    \* the result of the call
    sfx,         \* the Info handed to the name functions and the calls made on it
    cmd,         \* the manifest directory, the cluster and the output of the commands
    \* --- remote store
    live,        \* ObjMetadata of the live objects
    invLive,     \* the inventory marker exists
    invData,     \* the member set stored in the marker
    annotated,   \* live objects carrying the do-not-prune annotation
    \* --- the current run
    run,         \* number of runs started
    kind,        \* "none" | "apply" | "destroy"
    dry,         \* DryRunStrategy of the run
    pc,          \* position of the run goroutine
    after,       \* where the run goroutine continues after a send
    infos,       \* infos
    invInfo,     \* invInfo
    queue,       \* desired objects not yet applied
    applied,     \* objects applied without failure
    cands,       \* prune candidates not yet visited
    pend,        \* the event the run goroutine is sending
    err,         \* err of Prune: "nil" or the error
    \* --- the transformer goroutine
    tpc,         \* "idle" | "recv" | "send" | "done"
    msg,         \* msg
    tempClosed,  \* tempChannel is closed
    completed,   \* completedChannel is closed
    \* --- the public channel
    chClosed,    \* ch is closed
    pub,         \* events received from ch, in order
    tempSent,    \* events Prune sent on tempChannel, in order
    calls,       \* calls issued against the remote store, in order
    \* --- the consumer
    cons,
    \* --- the destroy command
    runE,        \* DestroyRunner.RunE: position, objects read, calls made, result
    \* --- history kept across runs
    invAtStart,  \* the member set recorded when the run started
    liveAtStart, \* the live objects when the run started
    prev         \* what the previous run was and did

splitVars == <<batch, splitFn, splitOut, sfx, cmd>>
storeVars == <<live, invLive, invData, annotated>>
runVars == <<run, kind, dry, pc, after, infos, invInfo, queue, applied, cands, pend, err>>
transVars == <<tpc, msg, tempClosed, completed>>
chanVars == <<chClosed, pub, tempSent, calls>>
ghostVars == <<invAtStart, liveAtStart, prev>>
vars == <<splitVars, storeVars, runVars, transVars, chanVars, cons, runE, ghostVars>>

\* The objects of the Apply resource updates with operation Failed in h.
FailedObjs(h) ==
    {h[i].obj : i \in {j \in 1..Len(h) : h[j].type = "Apply" /\ h[j].op = "Failed"}}

NoPrev == [kind |-> "none", failed |-> {}, ok |-> {}, stored |-> FALSE, completed |-> FALSE]

\* ---------------------------------------------------------------- consumers
\* BasicPrinter.Print, or the collecting loop of the end-to-end test.
ConsumerKinds == {"print", "collect"}

ZeroApplyStats == [serversideApplied |-> 0, created |-> 0, unchanged |-> 0, configured |-> 0]
ZeroPruneStats == [pruned |-> 0, skipped |-> 0]
ZeroDeleteStats == [deleted |-> 0, skipped |-> 0]

\* statusCollector.latestStatus before any update: no resource has an entry.
NoStatus == [o \in Objs |-> "none"]

NewConsumer(k, d) ==
    [kind |-> k, status |-> "running", err |-> "-", preview |-> d,
     applyStats |-> ZeroApplyStats, pruneStats |-> ZeroPruneStats,
     deleteStats |-> ZeroDeleteStats, printStatus |-> FALSE, out |-> <<>>,
     latestStatus |-> NoStatus, statusOut |-> <<>>]

IdleConsumer(k) == [NewConsumer(k, "None") EXCEPT !.status = "idle"]

\* Faulty variant of PreviewSuffix: no strategy adds a suffix.
PreviewSuffixNone(d) == ""

\* getPrintFunc: the suffix appended to every format.
PreviewSuffix(d) ==
    IF d = "ClientOnly" THEN " (preview)"
    ELSE IF d = "ServerSide" THEN " (preview-server)"
    ELSE ""

\* One printed line: what is printed, about which object, with which counts.
Line(what, o, n1, n2, n3, n4, n5, d) ==
    [what |-> what, obj |-> o, n1 |-> n1, n2 |-> n2, n3 |-> n3, n4 |-> n4,
     n5 |-> n5, suffix |-> PreviewSuffix(d)]

\* Faulty variant of ApplySum: the serverside-applied count is left out.
ApplySumWithoutServerside(a) == a.configured + a.unchanged + a.created

\* applyStats.sum
ApplySum(a) == a.serversideApplied + a.configured + a.unchanged + a.created

ApplyOpsCounted == {"ServersideApplied", "Created", "Unchanged", "Configured"}

\* applyStats.inc; the default branch panics.
ApplyInc(a, op) ==
    IF op = "ServersideApplied" THEN [a EXCEPT !.serversideApplied = @ + 1]
    ELSE IF op = "Created" THEN [a EXCEPT !.created = @ + 1]
    ELSE IF op = "Unchanged" THEN [a EXCEPT !.unchanged = @ + 1]
    ELSE IF op = "Configured" THEN [a EXCEPT !.configured = @ + 1]
    ELSE a

\* The lines printed for one event about resource statuses; the lines of the
\* loop over latestStatus come in the order of the map, which is not fixed.
StatusLines(what, lines, d) == [what |-> what, lines |-> lines, suffix |-> PreviewSuffix(d)]

\* The entries of latestStatus: one per resource that had an update.
LatestStatuses(c) ==
    {[obj |-> o, status |-> c.latestStatus[o]] : o \in {x \in Objs : c.latestStatus[x] # "none"}}

\* statusCollector.updateStatus
updateStatus(c, id, se) == [c EXCEPT !.latestStatus[id] = se]

\* BasicPrinter.processApplyEvent
processApplyEvent(c, e) ==
    IF e.sub = "Completed"
    THEN [c EXCEPT !.out = Append(@, Line("applied-summary", "-",
                        ApplySum(c.applyStats), c.applyStats.created,
                        c.applyStats.unchanged, c.applyStats.configured,
                        c.applyStats.serversideApplied, c.preview)),
                   !.printStatus = TRUE,
                   !.statusOut = Append(@, StatusLines("statuses", LatestStatuses(c),
                                                       c.preview))]
    ELSE IF e.op \notin ApplyOpsCounted
    THEN [c EXCEPT !.status = "panicked", !.err = "unknown apply operation"]
    ELSE [c EXCEPT !.applyStats = ApplyInc(@, e.op),
                   !.out = Append(@, Line(e.op, e.obj, 0, 0, 0, 0, 0, c.preview))]

\* Faulty variant of processStatusEvent: a resource update is printed at once
\* whatever printStatus is.
processStatusEventAlwaysPrints(c, e) ==
    IF e.sub = "ResourceUpdate"
    THEN [updateStatus(c, e.obj, e.op) EXCEPT
              !.statusOut = Append(@, StatusLines("status",
                                {[obj |-> e.obj, status |-> e.op]}, c.preview))]
    ELSE IF e.sub = "Error"
    THEN [c EXCEPT !.statusOut = Append(@, StatusLines("status error", {}, c.preview))]
    ELSE IF e.sub = "Completed"
    THEN [c EXCEPT !.printStatus = FALSE,
                   !.statusOut = Append(@, StatusLines("completed", {}, c.preview))]
    ELSE [c EXCEPT !.printStatus = FALSE,
                   !.statusOut = Append(@, StatusLines("aborted", {}, c.preview))]

\* BasicPrinter.processStatusEvent
processStatusEvent(c, e) ==
    IF e.sub = "ResourceUpdate"
    THEN LET c1 == updateStatus(c, e.obj, e.op)
         IN  IF c1.printStatus
             THEN [c1 EXCEPT !.statusOut = Append(@, StatusLines("status",
                                  {[obj |-> e.obj, status |-> e.op]}, c.preview))]
             ELSE c1
    ELSE IF e.sub = "Error"
    THEN [c EXCEPT !.statusOut = Append(@, StatusLines("status error", {}, c.preview))]
    ELSE IF e.sub = "Completed"
    THEN [c EXCEPT !.printStatus = FALSE,
                   !.statusOut = Append(@, StatusLines("completed", {}, c.preview))]
    ELSE [c EXCEPT !.printStatus = FALSE,
                   !.statusOut = Append(@, StatusLines("aborted", {}, c.preview))]

\* BasicPrinter.processPruneEvent
processPruneEvent(c, e) ==
    IF e.sub = "Completed"
    THEN [c EXCEPT !.out = Append(@, Line("pruned-summary", "-",
                        c.pruneStats.pruned, c.pruneStats.skipped, 0, 0, 0, c.preview))]
    ELSE IF e.op = "Pruned"
    THEN [c EXCEPT !.pruneStats.pruned = @ + 1,
                   !.out = Append(@, Line("pruned", e.obj, 0, 0, 0, 0, 0, c.preview))]
    ELSE IF e.op = "PruneSkipped"
    THEN [c EXCEPT !.pruneStats.skipped = @ + 1,
                   !.out = Append(@, Line("prune skipped", e.obj, 0, 0, 0, 0, 0, c.preview))]
    ELSE c

\* BasicPrinter.processDeleteEvent
processDeleteEvent(c, e) ==
    IF e.sub = "Completed"
    THEN [c EXCEPT !.out = Append(@, Line("deleted-summary", "-",
                        c.deleteStats.deleted, c.deleteStats.skipped, 0, 0, 0, c.preview))]
    ELSE IF e.op = "Deleted"
    THEN [c EXCEPT !.deleteStats.deleted = @ + 1,
                   !.out = Append(@, Line("deleted", e.obj, 0, 0, 0, 0, 0, c.preview))]
    ELSE IF e.op = "DeleteSkipped"
    THEN [c EXCEPT !.deleteStats.skipped = @ + 1,
                   !.out = Append(@, Line("delete skipped", e.obj, 0, 0, 0, 0, 0, c.preview))]
    ELSE c

\* Faulty variant of PrintEvent: an Error event does not end the loop.
PrintEventIgnoresError(c, e) ==
    IF e.type = "Apply" THEN processApplyEvent(c, e)
    ELSE IF e.type = "Status" THEN processStatusEvent(c, e)
    ELSE IF e.type = "Prune" THEN processPruneEvent(c, e)
    ELSE IF e.type = "Delete" THEN processDeleteEvent(c, e)
    ELSE c

\* The body of the loop of BasicPrinter.Print for one received event.
PrintEvent(c, e) ==
    IF e.type = "Error" THEN [c EXCEPT !.status = "returned", !.err = e.err]
    ELSE IF e.type = "Apply" THEN processApplyEvent(c, e)
    ELSE IF e.type = "Status" THEN processStatusEvent(c, e)
    ELSE IF e.type = "Prune" THEN processPruneEvent(c, e)
    ELSE IF e.type = "Delete" THEN processDeleteEvent(c, e)
    ELSE c

\* The body of the collecting loop of the end-to-end test: an Error event
\* fails the expectation and ends the loop.
CollectEvent(c, e) ==
    IF e.type = "Error" THEN [c EXCEPT !.status = "failed", !.err = e.err]
    ELSE c

Consume(c, e) == IF c.kind = "print" THEN PrintEvent(c, e) ELSE CollectEvent(c, e)


\* ------------------------------------------------------------- remote store
Mutating == dry = "None"
Call(op, o) == [op |-> op, obj |-> o]

\* ------------------------------------------------------ the destroy command
\* An error value without templates.
Err(k) == [kind |-> k, templates |-> <<>>]

\* DestroyRunner.RunE is not running.
RunEIdle == [pc |-> "idle", objs |-> <<>>, calls |-> <<>>, ret |-> NoErr]

\* Faulty variant of RunEAfterSplitError: the split error is not checked.
RunEAfterSplitErrorIgnored == "Initialize"

\* if err != nil { return err } after inventory.SplitUnstructureds
RunEAfterSplitError == "returned"

\* The manifests Destroyer.Run works from: those the command has read when
\* it is run by the command.
ManifestBatches == IF runE.pc = "Print" THEN {runE.objs} ELSE ScenarioBatches

\* ------------------------------------------------------------ initial state
\* ------------------------------------------- inventory: the name functions
\* Names and suffixes are sequences of characters, so that strings.HasSuffix,
\* strings.TrimSpace and the concatenation are computed.
legacyInvName == <<"i", "n", "v", "e", "n", "t", "o", "r", "y">>
Dash == <<"-">>

\* Longest suffix handed to addSuffixToName or drawn by common.RandomStr.
MaxSuffix == 2
\* Number of consecutive calls on the same Info.
MaxCalls == 2

\* A nil *resource.Info, an Info whose Object is nil, and an Info whose
\* object carries the name objName.
NilNameInfo == [isNil |-> TRUE, hasObj |-> FALSE, name |-> <<>>, objName |-> <<>>]
NoObjNameInfo(n) == [isNil |-> FALSE, hasObj |-> FALSE, name |-> n, objName |-> <<>>]
NameInfo(n, m) == [isNil |-> FALSE, hasObj |-> TRUE, name |-> n, objName |-> m]

\* strings.HasSuffix
HasSuffix(s, t) ==
    /\ Len(t) <= Len(s)
    /\ SubSeq(s, Len(s) - Len(t) + 1, Len(s)) = t

NameResult(info, e) == [info |-> info, err |-> e]

\* Faulty variant of addSuffixToName: a name that already ends with the
\* suffix is not rejected.
addSuffixToNameUnchecked(info, suffix) ==
    IF info.isNil THEN NameResult(info, "nil resource.Info")
    ELSE LET trimmed == TrimSpace(suffix)
         IN  IF Len(trimmed) = 0 THEN NameResult(info, "passed empty suffix")
             ELSE IF ~info.hasObj THEN NameResult(info, "panic")
             ELSE IF info.objName # info.name THEN NameResult(info, "different names")
             ELSE NameResult([info EXCEPT !.name = @ \o Dash \o trimmed,
                                          !.objName = @ \o Dash \o trimmed], "nil")

\* addSuffixToName: (info after the call, err). meta.Accessor of a nil Object
\* returns a nil accessor, whose GetName panics.
addSuffixToName(info, suffix) ==
    IF info.isNil THEN NameResult(info, "nil resource.Info")
    ELSE LET trimmed == TrimSpace(suffix)
         IN  IF Len(trimmed) = 0 THEN NameResult(info, "passed empty suffix")
             ELSE IF ~info.hasObj THEN NameResult(info, "panic")
             ELSE IF info.objName # info.name THEN NameResult(info, "different names")
             ELSE IF HasSuffix(info.objName, Dash \o trimmed)
             THEN NameResult(info, "name already has suffix")
             ELSE NameResult([info EXCEPT !.name = @ \o Dash \o trimmed,
                                          !.objName = @ \o Dash \o trimmed], "nil")

\* common.RandomStr: some non-empty string without blanks.
RandomStrs == SeqsUpTo({"x", "y"}, MaxSuffix) \ {<<>>}

\* Faulty variant of fixLegacyInventoryName: every name gets the suffix.
fixLegacyInventoryNameAlways(info, randomSuffix) ==
    IF info.isNil \/ ~info.hasObj THEN NameResult(info, "invalid inventory object")
    ELSE addSuffixToName(info, randomSuffix)

\* fixLegacyInventoryName, with the string common.RandomStr returned.
fixLegacyInventoryName(info, randomSuffix) ==
    IF info.isNil \/ ~info.hasObj THEN NameResult(info, "invalid inventory object")
    ELSE IF info.name = legacyInvName \/ info.objName = legacyInvName
    THEN addSuffixToName(info, randomSuffix)
    ELSE NameResult(info, "nil")

\* The name functions were handed nothing.
NameIdle == [info |-> NilNameInfo, hist |-> <<>>]

\* ------------------------------------------------ the commands on a directory
\* The longest manifest directory.
MaxDir == 4

\* A third ordinary resource of the manifest directory.
ResC == Info("c", NoLabel)

\* The manifest directories: the inventory ConfigMap and resources, each
\* object at most once.
DirItems == {InvObj, ResA, ResB, ResC}
Dirs ==
    {d \in SeqsUpTo(DirItems, MaxDir) :
        d # <<>> /\ \A i, j \in 1..Len(d) : d[i] = d[j] => i = j}

\* The resources of a directory, by name, without its inventory ConfigMap.
RECURSIVE DirResources(_)
DirResources(d) ==
    IF d = <<>> THEN <<>>
    ELSE (IF IsInventoryObject(Head(d)) THEN <<>> ELSE <<Head(d).name>>)
             \o DirResources(Tail(d))

HasInventory(d) == \E i \in 1..Len(d) : IsInventoryObject(d[i])

CmdLine(what, o, n) == [what |-> what, obj |-> o, n |-> n]

\* The "applied <Kind>/<name>" lines of cli-utils apply, one per object.
RECURSIVE AppliedLines(_)
AppliedLines(d) ==
    IF d = <<>> THEN <<>>
    ELSE <<CmdLine("applied", Head(d).name, 0)>> \o AppliedLines(Tail(d))

\* Faulty variant of ApplyOutput: the inventory ConfigMap gets no line.
ApplyOutputWithoutInventory(d) ==
    LET lines == [i \in 1..Len(DirResources(d)) |->
                      CmdLine("applied", DirResources(d)[i], 0)]
    IN  Append(lines, CmdLine("Resources", "-", Len(lines)))

\* The output of cli-utils apply: the applied lines, then "Resources: N".
ApplyOutput(d) ==
    Append(AppliedLines(d), CmdLine("Resources", "-", Len(AppliedLines(d))))

\* The list the inventory ConfigMap holds after an apply: what it held,
\* then the resources of the directory it did not hold yet.
RECURSIVE Recorded(_, _)
Recorded(inv, new) ==
    IF new = <<>> THEN inv
    ELSE Recorded(IF Head(new) \in Range(inv) THEN inv ELSE Append(inv, Head(new)),
                  Tail(new))

\* Faulty variant of Differ: the lists are compared entry by entry.
RECURSIVE DifferPositional(_, _)
DifferPositional(old, new) ==
    IF old = <<>> THEN <<>>
    ELSE (IF new # <<>> /\ Head(old) = Head(new) THEN <<>> ELSE <<Head(old)>>)
             \o DifferPositional(Tail(old), IF new = <<>> THEN <<>> ELSE Tail(new))

\* The diff of the old list against the new list: the obsolete resources.
RECURSIVE Differ(_, _)
Differ(old, new) ==
    IF old = <<>> THEN <<>>
    ELSE (IF Head(old) \in Range(new) THEN <<>> ELSE <<Head(old)>>)
             \o Differ(Tail(old), new)

CmdIdle ==
    [dir |-> <<>>, cluster |-> {}, inv |-> <<>>, removed |-> {}, last |-> "none",
     old |-> <<>>, new |-> <<>>, pruned |-> <<>>, out |-> <<>>, err |-> NoErr]

SplitIdle ==
    /\ batch = <<>>
    /\ splitFn = "none"
    /\ splitOut = [inv |-> NilInfo, resources |-> <<>>, err |-> NoErr]
    /\ sfx = NameIdle
    /\ cmd = CmdIdle

RunIdleFrom(n) ==
    /\ run = n
    /\ kind = "none"
    /\ dry = "None"
    /\ pc = "done"
    /\ after = "-"
    /\ infos = <<>>
    /\ invInfo = NilInfo
    /\ queue = <<>>
    /\ applied = {}
    /\ cands = {}
    /\ pend = NoEvent
    /\ err = "nil"
    /\ tpc = "idle"
    /\ msg = NoEvent
    /\ tempClosed = FALSE
    /\ completed = FALSE
    /\ chClosed = FALSE
    /\ pub = <<>>
    /\ tempSent = <<>>
    /\ calls = <<>>
    /\ cons \in {IdleConsumer(k) : k \in ConsumerKinds}
    /\ runE = RunEIdle
    /\ invAtStart = {}
    /\ liveAtStart = {}
    /\ prev = NoPrev

\* No run was started yet.
RunIdle == RunIdleFrom(0)

\* Before the first run the remote store holds nothing of the application;
\* which objects will carry the do-not-prune annotation, and which consumer
\* the caller drains the channel with, are fixed up front.
Init ==
    /\ SplitIdle
    /\ RunIdle
    /\ live = {}
    /\ invLive = FALSE
    /\ invData = {}
    /\ annotated \in SUBSET Objs

\* --------------------------------------------------- starting the next run
RunOver ==
    /\ cons.status # "running"
    /\ pc = "done" \/ cons.status \in {"panicked", "failed"}
    /\ runE.pc \in {"idle", "returned"}

\* What the run that is over was and did; a command that returned before
\* running the Destroyer leaves the record as it was.
FinishedRun ==
    IF kind = "none" THEN prev
    ELSE IF kind = "apply" /\ Call("Store", "-") \in Range(calls) /\ Mutating
    THEN [kind |-> kind, failed |-> FailedObjs(pub), ok |-> applied, stored |-> TRUE,
          completed |-> FALSE]
    ELSE [NoPrev EXCEPT !.kind = kind,
                        !.completed = /\ kind = "destroy"
                                      /\ Mutating
                                      /\ chClosed
                                      /\ pub # <<>>
                                      /\ pub[Len(pub)] = DeleteCompleted]

\* Applier.Run or Destroyer.Run creates the channel and starts the run
\* goroutine; the caller starts consuming.
BeginRun(k, d, p) ==
    /\ kind' = k
    /\ dry' = d
    /\ cons' = NewConsumer(cons.kind, d)
    /\ pc' = IF k = "destroy" THEN "GetObjects" ELSE "ApplierInit"
    /\ after' = "-"
    /\ infos' = <<>>
    /\ invInfo' = NilInfo
    /\ queue' = <<>>
    /\ applied' = {}
    /\ cands' = {}
    /\ pend' = NoEvent
    /\ err' = "nil"
    /\ tpc' = "idle"
    /\ msg' = NoEvent
    /\ tempClosed' = FALSE
    /\ completed' = FALSE
    /\ chClosed' = FALSE
    /\ pub' = <<>>
    /\ tempSent' = <<>>
    /\ calls' = <<>>
    /\ invAtStart' = (IF invLive THEN invData ELSE {})
    /\ liveAtStart' = live
    /\ prev' = p
    /\ UNCHANGED <<splitVars, storeVars>>

\* A new invocation through the library: the caller runs the Applier or the
\* Destroyer and drains the channel itself.
StartRun ==
    /\ run < MaxRuns
    /\ RunOver
    /\ run' = run + 1
    /\ runE' = RunEIdle
    /\ \E k \in {"apply", "destroy"}, d \in DryRunStrategies : BeginRun(k, d, FinishedRun)

\* ------------------------------------------------------ DestroyRunner.RunE
\* A new invocation through the destroy command: nothing is left of the run
\* before it but what that run was and did.
RunEStart ==
    /\ run < MaxRuns
    /\ RunOver
    /\ cons.kind = "print"
    /\ run' = run + 1
    /\ runE' = [RunEIdle EXCEPT !.pc = "Read"]
    /\ prev' = FinishedRun
    /\ invAtStart' = {}
    /\ liveAtStart' = {}
    /\ kind' = "none"
    /\ dry' = "None"
    /\ pc' = "done"
    /\ after' = "-"
    /\ infos' = <<>>
    /\ invInfo' = NilInfo
    /\ queue' = <<>>
    /\ applied' = {}
    /\ cands' = {}
    /\ pend' = NoEvent
    /\ err' = "nil"
    /\ tpc' = "idle"
    /\ msg' = NoEvent
    /\ tempClosed' = FALSE
    /\ completed' = FALSE
    /\ chClosed' = FALSE
    /\ pub' = <<>>
    /\ tempSent' = <<>>
    /\ calls' = <<>>
    /\ cons' = IdleConsumer("print")
    /\ UNCHANGED <<splitVars, storeVars>>

\* provider.ManifestReader, reader.Read, provider.InventoryClient: each
\* failure is returned as it is.
RunERead ==
    /\ runE.pc = "Read"
    /\ \/ runE' = [runE EXCEPT !.pc = "returned", !.ret = Err("reading manifests")]
       \/ \E objs \in ScenarioBatches :
             runE' = [runE EXCEPT !.pc = "SplitUnstructureds", !.objs = objs,
                                  !.calls = Append(@, "Read")]
    /\ UNCHANGED <<splitVars, ghostVars, storeVars, runVars, transVars, chanVars, cons>>

\* inv, _, err := inventory.SplitUnstructureds(factory, objs)
RunESplitUnstructureds ==
    /\ runE.pc = "SplitUnstructureds"
    /\ LET r == SplitUnstructureds(runE.objs)
       IN  runE' = IF r.err.kind # "nil"
                   THEN [runE EXCEPT !.pc = RunEAfterSplitError, !.ret = r.err,
                                     !.calls = Append(@, "SplitUnstructureds")]
                   ELSE [runE EXCEPT !.pc = "Initialize",
                                     !.calls = Append(@, "SplitUnstructureds")]
    /\ UNCHANGED <<splitVars, ghostVars, storeVars, runVars, transVars, chanVars, cons>>

\* err = r.Destroyer.Initialize()
RunEInitialize ==
    /\ runE.pc = "Initialize"
    /\ \/ runE' = [runE EXCEPT !.pc = "returned", !.ret = Err("initialize"),
                               !.calls = Append(@, "Initialize")]
       \/ runE' = [runE EXCEPT !.pc = "Run", !.calls = Append(@, "Initialize")]
    /\ UNCHANGED <<splitVars, ghostVars, storeVars, runVars, transVars, chanVars, cons>>

\* ch := r.Destroyer.Run(inv); printer.Print(ch, r.Destroyer.DryRunStrategy)
RunERun ==
    /\ runE.pc = "Run"
    /\ runE' = [runE EXCEPT !.pc = "Print", !.calls = Append(@, "Run")]
    /\ run' = run
    /\ \E d \in DryRunStrategies : BeginRun("destroy", d, prev)

\* return printer.Print(...)
RunEReturn ==
    /\ runE.pc = "Print"
    /\ cons.status = "returned"
    /\ runE' = [runE EXCEPT !.pc = "returned", !.ret = Err(cons.err)]
    /\ UNCHANGED <<splitVars, ghostVars, storeVars, runVars, transVars, chanVars, cons>>

\* ------------------------------------------------------------ Destroyer.Run
\* Faulty variant of AfterError: the return after the Error event is missing.
AfterErrorFallThrough == "SplitInfos"

\* After an Error event is sent the run goroutine returns.
AfterError == "return"

\* Faulty variant of AfterTransformerStart: the marker is deleted before Prune runs.
AfterTransformerStartDelete == "DeleteInventoryObj"

\* After the transformer is started, Prune is called.
AfterTransformerStart == "Prune"

\* Faulty variant of ErrAfterDeleteInventoryObj: the failure is assigned to err.
ErrAfterDeleteInventoryObjKept(e, failed) == IF failed THEN "delete inventory" ELSE e

\* err after `_ = d.invClient.DeleteInventoryObj(invInfo)`: the result is
\* discarded.
ErrAfterDeleteInventoryObj(e, failed) == e

\* infos, err := d.ApplyOptions.GetObjects()
GetObjects ==
    /\ kind = "destroy"
    /\ pc = "GetObjects"
    /\ \/ /\ pend' = ErrorEvent("error reading resource manifests")
          /\ pc' = "send"
          /\ after' = AfterError
          /\ infos' = infos
       \/ /\ infos' \in ManifestBatches
          /\ pc' = "SplitInfos"
          /\ UNCHANGED <<pend, after>>
    /\ UNCHANGED <<splitVars, ghostVars, runE, storeVars, run, kind, dry, invInfo, queue, applied,
                   cands, err, transVars, chanVars, cons>>

\* Faulty variant of ClearedInfos: the resources of the input are kept.
ClearedInfosWithResources(r) == <<r.inv>> \o r.resources

\* infos = []*resource.Info{invInfo}: only the marker is handed to Prune.
ClearedInfos(r) == <<r.inv>>

\* invInfo, _, err := inventory.SplitInfos(infos); infos = [invInfo]
DestroySplitInfos ==
    /\ kind = "destroy"
    /\ pc = "SplitInfos"
    /\ LET r == SplitInfos(infos)
       IN  IF r.err.kind # "nil"
           THEN /\ pend' = ErrorEvent("error clearing inventory object")
                /\ pc' = "send"
                /\ after' = AfterError
                /\ UNCHANGED <<infos, invInfo>>
           ELSE /\ invInfo' = r.inv
                /\ infos' = ClearedInfos(r)
                /\ pc' = "runPruneEventTransformer"
                /\ UNCHANGED <<pend, after>>
    /\ UNCHANGED <<splitVars, ghostVars, runE, storeVars, run, kind, dry, queue, applied, cands, err,
                   transVars, chanVars, cons>>

\* tempChannel, completedChannel := runPruneEventTransformer(ch)
runPruneEventTransformer ==
    /\ kind = "destroy"
    /\ pc = "runPruneEventTransformer"
    /\ tpc' = "recv"
    /\ pc' = AfterTransformerStart
    /\ UNCHANGED <<splitVars, ghostVars, runE, storeVars, run, kind, dry, after, infos, invInfo, queue,
                   applied, cands, pend, err, msg, tempClosed, completed, chanVars, cons>>

\* Faulty variant of transformPruneOperation: the two cases are swapped.
transformPruneOperationSwapped(pruneOp) ==
    IF pruneOp = "PruneSkipped" THEN "Deleted"
    ELSE IF pruneOp = "Pruned" THEN "DeleteSkipped"
    ELSE "panic"

\* transformPruneOperation; the default branch panics.
transformPruneOperation(pruneOp) ==
    IF pruneOp = "PruneSkipped" THEN "DeleteSkipped"
    ELSE IF pruneOp = "Pruned" THEN "Deleted"
    ELSE "panic"

\* Faulty variant of Relabel: the prune event is republished as it is.
RelabelIdentity(m) == m

\* The event the transformer republishes for msg.
Relabel(m) == DeleteUpdate(transformPruneOperation(m.op), m.obj)

\* Where Prune returns to.
PruneReturn == IF kind = "destroy" THEN "DeleteInventoryObj" ELSE "AfterPrune"

\* The desired set the prune engine is given: the resources of infos for a
\* destroy (none, infos holds only the marker), the applied objects otherwise.
PruneDesired ==
    IF kind = "destroy" THEN Range(Names(SplitInfos(infos).resources)) ELSE applied

\* Prune: load the previous inventory and compute the prune set.
PruneLoad ==
    /\ pc = "Prune"
    /\ \/ /\ err' = "transport"
          /\ pc' = PruneReturn
          /\ calls' = Append(calls, Call("LoadFailed", "-"))
          /\ cands' = cands
       \/ /\ cands' = (IF invLive THEN invData ELSE {}) \ PruneDesired
          /\ pc' = "PruneLoop"
          /\ calls' = Append(calls, Call("Load", "-"))
          /\ err' = err
    /\ UNCHANGED <<splitVars, ghostVars, runE, storeVars, run, kind, dry, after, infos, invInfo, queue,
                   applied, pend, transVars, chClosed, pub, tempSent, cons>>

\* Prune: visit one candidate, or return when none is left.
PruneNext ==
    /\ pc = "PruneLoop"
    /\ IF cands = {}
       THEN /\ pc' = PruneReturn
            /\ UNCHANGED <<live, cands, pend, err, calls>>
       ELSE \E o \in cands :
            \/ /\ err' = "transport"
               /\ pc' = PruneReturn
               /\ calls' = Append(calls, Call("FetchFailed", o))
               /\ UNCHANGED <<live, cands, pend>>
            \/ /\ o \notin live \/ o \in annotated
               /\ pend' = PruneUpdate("PruneSkipped", o)
               /\ cands' = cands \ {o}
               /\ pc' = "PruneSend"
               /\ calls' = Append(calls, Call("Fetch", o))
               /\ UNCHANGED <<live, err>>
            \/ /\ o \in live /\ o \notin annotated
               /\ pend' = PruneUpdate("Pruned", o)
               /\ cands' = cands \ {o}
               /\ live' = IF Mutating THEN live \ {o} ELSE live
               /\ pc' = "PruneSend"
               /\ calls' = Append(calls, Call("Delete", o))
               /\ err' = err
    /\ UNCHANGED <<splitVars, ghostVars, runE, invLive, invData, annotated, run, kind, dry, after, infos,
                   invInfo, queue, applied, transVars, chClosed, pub, tempSent, cons>>

\* Faulty variant of TransformerReceiving: tempChannel buffers the event.
TransformerReceivingOrNot == TRUE

\* tempChannel is unbuffered: a send completes when the transformer is at the
\* receive of its range loop.
TransformerReceiving == tpc = "recv"

\* Prune sends on tempChannel; the transformer receives (unbuffered channel).
PruneSendTemp ==
    /\ kind = "destroy"
    /\ pc = "PruneSend"
    /\ TransformerReceiving
    /\ ~tempClosed
    /\ msg' = pend
    /\ tpc' = "send"
    /\ tempSent' = Append(tempSent, pend)
    /\ pend' = NoEvent
    /\ pc' = "PruneLoop"
    /\ UNCHANGED <<splitVars, ghostVars, runE, storeVars, run, kind, dry, after, infos, invInfo, queue,
                   applied, cands, err, tempClosed, completed, chClosed, pub, calls, cons>>

\* The transformer republishes msg on ch; the consumer receives.
TransformerForward ==
    /\ tpc = "send"
    /\ cons.status = "running"
    /\ ~chClosed
    /\ pub' = Append(pub, Relabel(msg))
    /\ cons' = Consume(cons, Relabel(msg))
    /\ msg' = NoEvent
    /\ tpc' = "recv"
    /\ UNCHANGED <<splitVars, ghostVars, runE, storeVars, runVars, tempClosed, completed, chClosed,
                   tempSent, calls>>

\* The transformer's range loop ends on the closed tempChannel; the deferred
\* close(completedChannel) runs.
TransformerExit ==
    /\ tpc = "recv"
    /\ tempClosed
    /\ tpc' = "done"
    /\ completed' = TRUE
    /\ UNCHANGED <<splitVars, ghostVars, runE, storeVars, runVars, msg, tempClosed, chanVars, cons>>

\* if invInfo != nil { _ = d.invClient.DeleteInventoryObj(invInfo) }
DeleteInventoryObj ==
    /\ kind = "destroy"
    /\ pc = "DeleteInventoryObj"
    /\ pc' = "closeTemp"
    /\ IF invInfo.isNil
       THEN UNCHANGED <<invLive, invData, calls, err>>
       ELSE \/ /\ calls' = Append(calls, Call("DeleteInventoryObj", "-"))
               /\ invLive' = IF Mutating THEN FALSE ELSE invLive
               /\ invData' = IF Mutating THEN {} ELSE invData
               /\ err' = ErrAfterDeleteInventoryObj(err, FALSE)
            \/ /\ calls' = Append(calls, Call("DeleteInventoryObjFailed", "-"))
               /\ err' = ErrAfterDeleteInventoryObj(err, TRUE)
               /\ UNCHANGED <<invLive, invData>>
    /\ UNCHANGED <<splitVars, ghostVars, runE, live, annotated, run, kind, dry, after, infos, invInfo,
                   queue, applied, cands, pend, transVars, chClosed, pub, tempSent,
                   cons>>

\* Faulty variant of TempChannelClosed: tempChannel is left open.
TempChannelLeftOpen == FALSE

\* tempChannel after close(tempChannel).
TempChannelClosed == TRUE

\* close(tempChannel)
CloseTemp ==
    /\ kind = "destroy"
    /\ pc = "closeTemp"
    /\ tempClosed' = TempChannelClosed
    /\ pc' = "waitCompleted"
    /\ UNCHANGED <<splitVars, ghostVars, runE, storeVars, run, kind, dry, after, infos, invInfo, queue,
                   applied, cands, pend, err, tpc, msg, completed, chanVars, cons>>

\* Faulty variant of TransformerDone: the run goroutine does not wait.
TransformerDoneNoWait == TRUE

\* <-completedChannel returns once the transformer has closed it.
TransformerDone == completed

\* <-completedChannel, then the choice of the final event.
WaitCompleted ==
    /\ kind = "destroy"
    /\ pc = "waitCompleted"
    /\ TransformerDone
    /\ pend' = IF err # "nil" THEN ErrorEvent("error pruning resources")
               ELSE DeleteCompleted
    /\ pc' = "send"
    /\ after' = IF err # "nil" THEN AfterError ELSE "return"
    /\ UNCHANGED <<splitVars, ghostVars, runE, storeVars, run, kind, dry, infos, invInfo, queue, applied,
                   cands, err, transVars, chanVars, cons>>

\* ch <- pend by the run goroutine; the consumer receives.
RunSend ==
    /\ pc = "send"
    /\ cons.status = "running"
    /\ ~chClosed
    /\ pub' = Append(pub, pend)
    /\ cons' = Consume(cons, pend)
    /\ pend' = NoEvent
    /\ pc' = after
    /\ after' = "-"
    /\ UNCHANGED <<splitVars, ghostVars, runE, storeVars, run, kind, dry, infos, invInfo, queue, applied,
                   cands, err, transVars, chClosed, tempSent, calls>>

\* The run goroutine returns: the deferred close(ch) runs.
CloseCh ==
    /\ pc = "return"
    /\ chClosed' = TRUE
    /\ pc' = "done"
    /\ UNCHANGED <<splitVars, ghostVars, runE, storeVars, run, kind, dry, after, infos, invInfo, queue,
                   applied, cands, pend, err, transVars, pub, tempSent, calls, cons>>

\* The consumer's range loop ends on the closed channel: Print returns nil.
ConsumerClosed ==
    /\ cons.status = "running"
    /\ chClosed
    /\ cons' = [cons EXCEPT !.status = "returned", !.err = "nil"]
    /\ UNCHANGED <<splitVars, ghostVars, runE, storeVars, runVars, transVars, chanVars>>


\* ------------------------------------------------------------------ Applier
\* Init: the run reads its input and emits one Init event.
ApplierInit ==
    /\ kind = "apply"
    /\ pc = "ApplierInit"
    /\ infos' \in ScenarioBatches
    /\ pend' = InitEvent
    /\ pc' = "send"
    /\ after' = "ApplierValidate"
    /\ UNCHANGED <<splitVars, ghostVars, runE, storeVars, run, kind, dry, invInfo, queue, applied, cands,
                   err, transVars, chanVars, cons>>

\* Init: the desired set is split from the marker; no marker or several
\* markers abort the run before any mutation.
ApplierValidate ==
    /\ kind = "apply"
    /\ pc = "ApplierValidate"
    /\ LET r == SplitInfos(infos)
       IN  IF r.err.kind # "nil"
           THEN /\ pend' = ErrorEvent(r.err.kind)
                /\ pc' = "send"
                /\ after' = "return"
                /\ UNCHANGED <<invInfo, queue>>
           ELSE /\ invInfo' = r.inv
                /\ queue' = Names(r.resources)
                /\ pc' = "Apply"
                /\ UNCHANGED <<pend, after>>
    /\ UNCHANGED <<splitVars, ghostVars, runE, storeVars, run, kind, dry, infos, applied, cands, err,
                   transVars, chanVars, cons>>

\* The operations a successful upsert of o is classified as.
ApplyOutcomes(o) ==
    IF o \in live THEN {"Unchanged", "Configured", "ServersideApplied"}
    ELSE {"Created", "ServersideApplied"}

\* Faulty variant of ApplyFailureNext: the first per-object failure ends the batch.
ApplyFailureAborts(q) == <<>>

\* What is left of the batch after a per-object failure: the remaining
\* objects are still attempted.
ApplyFailureNext(q) == Tail(q)

\* Applying: one upsert per desired object, then the completion event.
ApplyNext ==
    /\ kind = "apply"
    /\ pc = "Apply"
    /\ pc' = "send"
    /\ IF queue = <<>>
       THEN /\ pend' = ApplyCompleted
            /\ after' = "Prune"
            /\ UNCHANGED <<live, queue, applied, calls>>
       ELSE LET o == Head(queue)
            IN  /\ after' = "Apply"
                /\ \/ /\ pend' = ApplyUpdate("Failed", o)
                      /\ queue' = ApplyFailureNext(queue)
                      /\ calls' = Append(calls, Call("ApplyFailed", o))
                      /\ UNCHANGED <<live, applied>>
                   \/ \E op \in ApplyOutcomes(o) :
                      /\ pend' = ApplyUpdate(op, o)
                      /\ queue' = Tail(queue)
                      /\ applied' = applied \cup {o}
                      /\ live' = IF Mutating THEN live \cup {o} ELSE live
                      /\ calls' = Append(calls, Call("Apply", o))
    /\ UNCHANGED <<splitVars, ghostVars, runE, invLive, invData, annotated, run, kind, dry, infos, invInfo,
                   cands, err, transVars, chClosed, pub, tempSent, cons>>

\* Prune sends on the applier's event channel; the consumer receives.
PruneSendPublic ==
    /\ kind = "apply"
    /\ pc = "PruneSend"
    /\ cons.status = "running"
    /\ ~chClosed
    /\ pub' = Append(pub, pend)
    /\ cons' = Consume(cons, pend)
    /\ pend' = NoEvent
    /\ pc' = "PruneLoop"
    /\ UNCHANGED <<splitVars, ghostVars, runE, storeVars, run, kind, dry, after, infos, invInfo, queue,
                   applied, cands, err, transVars, chClosed, tempSent, calls>>

\* Faulty variant of StoredMembers: every desired object is recorded, failed or not.
StoredMembersAll == Range(Names(SplitInfos(infos).resources))

\* The member set the applier persists: the objects that did not fail.
StoredMembers == applied

\* After Prune: a fatal error ends the run with an Error event; otherwise the
\* inventory is stored and the prune phase completes.
AfterPrune ==
    /\ kind = "apply"
    /\ pc = "AfterPrune"
    /\ pc' = "send"
    /\ after' = "return"
    /\ IF err # "nil"
       THEN /\ pend' = ErrorEvent("error pruning resources")
            /\ UNCHANGED <<invLive, invData, calls>>
       ELSE /\ pend' = PruneCompleted
            /\ invLive' = IF Mutating THEN TRUE ELSE invLive
            /\ invData' = IF Mutating THEN StoredMembers ELSE invData
            /\ calls' = Append(calls, Call("Store", "-"))
    /\ UNCHANGED <<splitVars, ghostVars, runE, live, annotated, run, kind, dry, infos, invInfo, queue,
                   applied, cands, err, transVars, chClosed, pub, tempSent, cons>>

\* ---------------------------------------------------------- specifications
Next ==
    \/ StartRun
    \/ RunEStart
    \/ RunERead
    \/ RunESplitUnstructureds
    \/ RunEInitialize
    \/ RunERun
    \/ RunEReturn
    \/ GetObjects
    \/ DestroySplitInfos
    \/ runPruneEventTransformer
    \/ PruneLoad
    \/ PruneNext
    \/ PruneSendTemp
    \/ TransformerForward
    \/ TransformerExit
    \/ DeleteInventoryObj
    \/ CloseTemp
    \/ WaitCompleted
    \/ RunSend
    \/ CloseCh
    \/ ConsumerClosed
    \/ ApplierInit
    \/ ApplierValidate
    \/ ApplyNext
    \/ PruneSendPublic
    \/ AfterPrune

Spec == Init /\ [][Next]_vars

\* ------------------------------------------------- destroy runs on any store
\* What earlier runs may have left in the remote store: any set of live
\* objects, some of them annotated as retained, and a marker, if there is
\* one, recording any member set.
AnyStore ==
    /\ live \in SUBSET Objs
    /\ invLive \in BOOLEAN
    /\ invData \in (IF invLive THEN SUBSET Objs ELSE {{}})
    /\ annotated \in SUBSET live

DestroyInit ==
    /\ SplitIdle
    /\ RunIdle
    /\ AnyStore

\* A new invocation of Destroyer.Run through the library.
StartDestroy ==
    /\ run < MaxRuns
    /\ RunOver
    /\ run' = run + 1
    /\ runE' = RunEIdle
    /\ \E d \in DryRunStrategies : BeginRun("destroy", d, FinishedRun)

\* The steps of the run goroutine, the sends included.
RunGoroutine ==
    \/ GetObjects
    \/ DestroySplitInfos
    \/ runPruneEventTransformer
    \/ PruneLoad
    \/ PruneNext
    \/ PruneSendTemp
    \/ DeleteInventoryObj
    \/ CloseTemp
    \/ WaitCompleted
    \/ RunSend
    \/ CloseCh

\* The steps of the transformer goroutine.
TransformerGoroutine == TransformerForward \/ TransformerExit

DestroyNext ==
    \/ StartDestroy
    \/ RunGoroutine
    \/ TransformerGoroutine
    \/ ConsumerClosed

SpecDestroy == DestroyInit /\ [][DestroyNext]_vars

\* One destroy run, the last of the scenario, under the Go scheduler: a
\* goroutine that can take a step eventually takes one, and so does the
\* consumer, which keeps receiving until an Error event or the closure.
LiveInit ==
    /\ SplitIdle
    /\ RunIdleFrom(MaxRuns - 1)
    /\ AnyStore

Fairness ==
    /\ WF_vars(RunGoroutine)
    /\ WF_vars(TransformerGoroutine)
    /\ WF_vars(ConsumerClosed)

SpecLive == LiveInit /\ [][DestroyNext]_vars /\ Fairness

\* ------------------------------------------- the split functions on batches
SplitItems == {NilInfo, NoObjInfo, InvObj, InvObj2, BlankObj, ResA, ResB}

SplitInit ==
    /\ batch \in SeqsUpTo(SplitItems, MaxBatch)
    /\ sfx = NameIdle
    /\ cmd = CmdIdle
    /\ splitFn = "none"
    /\ splitOut = [inv |-> NilInfo, resources |-> <<>>, err |-> NoErr]
    /\ RunIdle
    /\ cons.kind = "print"
    /\ live = {}
    /\ invLive = FALSE
    /\ invData = {}
    /\ annotated = {}

CallSplitInfos ==
    /\ splitFn = "none"
    /\ splitFn' = "SplitInfos"
    /\ splitOut' = SplitInfos(batch)
    /\ UNCHANGED <<batch, sfx, cmd, ghostVars, runE, storeVars, runVars, transVars, chanVars, cons>>

\* A slice of *unstructured.Unstructured holds objects or nil, never an Info
\* without Object.
CallSplitUnstructureds ==
    /\ splitFn = "none"
    /\ NoObjInfo \notin Range(batch)
    /\ splitFn' = "SplitUnstructureds"
    /\ splitOut' = SplitUnstructureds(batch)
    /\ UNCHANGED <<batch, sfx, cmd, ghostVars, runE, storeVars, runVars, transVars, chanVars, cons>>

SplitNext == CallSplitInfos \/ CallSplitUnstructureds

SpecSplit == SplitInit /\ [][SplitNext]_vars

\* FindInventoryObj and SplitInfos are called on the same list.
CallFindInventoryObj ==
    /\ splitFn = "none"
    /\ splitFn' = "FindInventoryObj"
    /\ splitOut' = [found |-> FindInventoryObj(batch), split |-> SplitInfos(batch)]
    /\ UNCHANGED <<batch, sfx, cmd, ghostVars, runE, storeVars, runVars, transVars, chanVars, cons>>

SpecFind == SplitInit /\ [][CallFindInventoryObj]_vars

\* -------------------------------------------- the name functions on an Info
\* The names the Info and its object start with.
InitialNames == {legacyInvName, <<"c", "m">>, legacyInvName \o Dash \o <<"x">>}

NameInfos ==
    {NilNameInfo, NoObjNameInfo(legacyInvName)}
        \cup {NameInfo(n, m) : n \in InitialNames, m \in InitialNames}

\* The suffixes a caller may pass: empty, blank, padded or plain.
Suffixes == SeqsUpTo({SP, "x", "y"}, MaxSuffix)

NameInit ==
    /\ batch = <<>>
    /\ splitFn = "none"
    /\ splitOut = [inv |-> NilInfo, resources |-> <<>>, err |-> NoErr]
    /\ sfx \in {[info |-> i, hist |-> <<>>] : i \in NameInfos}
    /\ cmd = CmdIdle
    /\ RunIdle
    /\ cons.kind = "print"
    /\ live = {}
    /\ invLive = FALSE
    /\ invData = {}
    /\ annotated = {}

\* One call recorded: the function, its suffix, the Info before and after.
NameCall(fn, suffix, r) ==
    [fn |-> fn, suffix |-> suffix, before |-> sfx.info, after |-> r.info, err |-> r.err]

\* The Info can be handed to a further call: no call on it has panicked.
CanCall ==
    /\ Len(sfx.hist) < MaxCalls
    /\ \A i \in 1..Len(sfx.hist) : sfx.hist[i].err # "panic"

CallAddSuffixToName ==
    /\ CanCall
    /\ \E suffix \in Suffixes :
          LET r == addSuffixToName(sfx.info, suffix)
          IN  sfx' = [info |-> r.info,
                      hist |-> Append(sfx.hist, NameCall("addSuffixToName", suffix, r))]
    /\ UNCHANGED <<batch, splitFn, splitOut, cmd, ghostVars, runE, storeVars, runVars, transVars,
                   chanVars, cons>>

CallFixLegacyInventoryName ==
    /\ CanCall
    /\ \E randomSuffix \in RandomStrs :
          LET r == fixLegacyInventoryName(sfx.info, randomSuffix)
          IN  sfx' = [info |-> r.info,
                      hist |-> Append(sfx.hist,
                                      NameCall("fixLegacyInventoryName", randomSuffix, r))]
    /\ UNCHANGED <<batch, splitFn, splitOut, cmd, ghostVars, runE, storeVars, runVars, transVars,
                   chanVars, cons>>

NameNext == CallAddSuffixToName \/ CallFixLegacyInventoryName

SpecName == NameInit /\ [][NameNext]_vars


\* ------------------------------------------------ the commands on a directory
CmdInit ==
    /\ batch = <<>>
    /\ sfx = NameIdle
    /\ splitFn = "none"
    /\ splitOut = [inv |-> NilInfo, resources |-> <<>>, err |-> NoErr]
    /\ cmd \in {[CmdIdle EXCEPT !.dir = d] : d \in Dirs}
    /\ RunIdle
    /\ cons.kind = "print"
    /\ live = {}
    /\ invLive = FALSE
    /\ invData = {}
    /\ annotated = {}

CmdFrame ==
    UNCHANGED <<batch, splitFn, splitOut, sfx, ghostVars, runE, storeVars, runVars, transVars,
                chanVars, cons>>

\* cli-utils apply <dir>: every object of the directory is applied and the
\* inventory ConfigMap, when the directory has one, records its resources.
CmdApply ==
    /\ cmd' = [cmd EXCEPT
                  !.cluster = @ \cup Range(Names(cmd.dir)),
                  !.inv = IF HasInventory(cmd.dir)
                          THEN Recorded(@, DirResources(cmd.dir)) ELSE @,
                  !.last = "apply",
                  !.old = <<>>,
                  !.new = <<>>,
                  !.pruned = <<>>,
                  !.out = ApplyOutput(cmd.dir),
                  !.err = NoErr]
    /\ CmdFrame

\* The directory without its i-th object.
RemoveAt(d, i) == SubSeq(d, 1, i - 1) \o SubSeq(d, i + 1, Len(d))

\* The user edits the directory: one object is removed from it or added to it.
EditedDirs(d) ==
    {RemoveAt(d, i) : i \in 1..Len(d)}
        \cup {Append(d, x) : x \in {y \in DirItems : Len(d) < MaxDir /\ y \notin Range(d)}}

CmdEdit ==
    /\ \E d \in EditedDirs(cmd.dir) \cap Dirs :
          cmd' = [cmd EXCEPT
                    !.dir = d,
                    !.removed = (@ \cup ((Range(Names(cmd.dir)) \cap cmd.cluster)
                                             \ {InvObj.name}))
                                    \ Range(Names(d)),
                    !.last = "edit",
                    !.old = <<>>,
                    !.new = <<>>,
                    !.pruned = <<>>,
                    !.out = <<>>]
    /\ CmdFrame

\* cli-utils prune <dir>: the old list of the inventory ConfigMap is compared
\* with the new list of the directory and the obsolete resources are deleted.
CmdPrune ==
    /\ HasInventory(cmd.dir)
    /\ LET old == cmd.inv
           new == DirResources(cmd.dir)
           obsolete == Differ(old, new)
       IN  cmd' = [cmd EXCEPT
                     !.cluster = @ \ Range(obsolete),
                     !.inv = Differ(old, obsolete),
                     !.removed = @ \ Range(obsolete),
                     !.last = "prune",
                     !.old = old,
                     !.new = new,
                     !.pruned = obsolete,
                     !.out = <<CmdLine("Resources", "-", Len(obsolete))>>,
                     !.err = NoErr]
    /\ CmdFrame

CmdNext == CmdApply \/ CmdEdit \/ CmdPrune

SpecCmd == CmdInit /\ [][CmdNext]_vars


\* ------------------------------------------------ BasicPrinter.Print on events
\* The longest event sequence handed to one Print call.
MaxFeed == 4

\* The statuses the poller reports for a resource.
Statuses == {"InProgress", "Current"}

\* The events a channel can deliver to Print.
FeedEvents ==
    {StatusUpdate(st, o) : st \in Statuses, o \in Objs}
        \cup {StatusError("a"), StatusCompleted, StatusAborted, ApplyCompleted,
              ApplyUpdate("Created", "a"), ErrorEvent("timeout")}

PrintInit ==
    /\ SplitIdle
    /\ RunIdle
    /\ cons.kind = "print"
    /\ live = {}
    /\ invLive = FALSE
    /\ invData = {}
    /\ annotated = {}

\* Print is called: the counters and the status collector are fresh.
PrintStart ==
    /\ cons.status = "idle"
    /\ \E d \in DryRunStrategies : cons' = NewConsumer("print", d)
    /\ UNCHANGED <<splitVars, ghostVars, runE, storeVars, runVars, transVars, chanVars>>

\* One pass of the range loop of Print: an event is received and processed.
FeedEvent ==
    /\ cons.status = "running"
    /\ Len(pub) < MaxFeed
    /\ \E e \in FeedEvents :
          /\ pub' = Append(pub, e)
          /\ cons' = Consume(cons, e)
    /\ UNCHANGED <<splitVars, ghostVars, runE, storeVars, runVars, transVars, chClosed,
                   tempSent, calls>>

PrintNext == PrintStart \/ FeedEvent

SpecPrint == PrintInit /\ [][PrintNext]_vars


\* =================================================================== claims
IsDeleteUpdate(e) == e.type = "Delete" /\ e.sub = "ResourceUpdate"
IsApplyUpdate(e) == e.type = "Apply" /\ e.sub = "ResourceUpdate"
IsPruneUpdate(e) == e.type = "Prune" /\ e.sub = "ResourceUpdate"
IsError(e) == e.type = "Error"
DeleteUpdates == SelectSeq(pub, IsDeleteUpdate)
HasError == \E i \in 1..Len(pub) : IsError(pub[i])
CallOps == {calls[i].op : i \in 1..Len(calls)}
PruneFailed == CallOps \cap {"LoadFailed", "FetchFailed"} # {}
MarkerDeletionIdx ==
    {i \in 1..Len(calls) : calls[i].op \in {"DeleteInventoryObj", "DeleteInventoryObjFailed"}}
PruneCallOps == {"Load", "LoadFailed", "Fetch", "FetchFailed", "Delete"}
InPrune == pc \in {"Prune", "PruneLoop", "PruneSend"}

\* C1: when the public channel of a destroy run is closed, the consumer has
\* received exactly one Delete resource update per event Prune sent on the
\* temporary channel, in the same order, and the transformer holds none.
C1_AllForwardedBeforeClose ==
    (kind = "destroy" /\ chClosed) =>
        /\ tpc # "send"
        /\ Len(DeleteUpdates) = Len(tempSent)
        /\ \A i \in 1..Len(DeleteUpdates) : DeleteUpdates[i].obj = tempSent[i].obj

C1_Witness ==
    /\ kind = "destroy"
    /\ chClosed
    /\ Len(tempSent) = 2
    /\ Len(DeleteUpdates) = 2

\* C2: in a destroy run an Error event is the last event received: it is
\* sent at most once, nothing is being sent nor held after it, and the run
\* goroutine has nothing left to do but close the channel.
C2_ErrorIsLast ==
    kind = "destroy" =>
        \A i \in 1..Len(pub) :
            IsError(pub[i]) =>
                /\ i = Len(pub)
                /\ pc \in {"return", "done"}
                /\ pend = NoEvent
                /\ tpc \in {"idle", "done"}
                /\ (pc = "done" => chClosed)

C2_Witness ==
    /\ kind = "destroy"
    /\ chClosed
    /\ Len(pub) >= 2
    /\ pub[Len(pub)] = ErrorEvent("error pruning resources")
    /\ \E u \in {"a", "b"} : pub[1] = DeleteUpdate("Deleted", u)

\* C3: an apply run with per-object failures and no Error event, printed by
\* BasicPrinter.Print, leaves the printer alive, and at ApplyEventCompleted
\* the printer has printed its summary.
C3_FailedRunGetsSummary ==
    (/\ kind = "apply"
     /\ cons.kind = "print"
     /\ FailedObjs(pub) # {}
     /\ ~HasError) =>
        /\ cons.status \in {"running", "returned"}
        /\ (ApplyCompleted \in Range(pub) =>
                \E i \in 1..Len(cons.out) : cons.out[i].what = "applied-summary")

\* The desired set of the apply run, in input order.
Desired == Names(SplitInfos(infos).resources)
ApplyRunValid ==
    /\ kind = "apply"
    /\ pc # "ApplierInit"
    /\ SplitInfos(infos).err.kind = "nil"
ApplyFailedFor(o) == Call("ApplyFailed", o) \in Range(calls)

\* C4: in an apply run a per-object failure yields a Failed resource update
\* and never an Error event; every object of the desired set is attempted in
\* order, and ApplyCompleted and PruneCompleted follow.
C4_ContinueOnError ==
    ApplyRunValid =>
        /\ (~PruneFailed => ~HasError /\ pend.type # "Error")
        /\ \A o \in Objs :
              ApplyFailedFor(o) =>
                 ApplyUpdate("Failed", o) \in (Range(pub) \cup {pend})
        /\ (pc = "done" /\ ~PruneFailed) =>
              LET n == Len(Desired)
              IN  /\ Len(pub) >= n + 3
                  /\ pub[1] = InitEvent
                  /\ \A i \in 1..n :
                        /\ IsApplyUpdate(pub[i + 1])
                        /\ pub[i + 1].obj = Desired[i]
                        /\ (pub[i + 1].op = "Failed" <=> ApplyFailedFor(Desired[i]))
                        /\ pub[i + 1].op \in ApplyOpsCounted \cup {"Failed"}
                  /\ pub[n + 2] = ApplyCompleted
                  /\ \A i \in (n + 3)..(Len(pub) - 1) : IsPruneUpdate(pub[i])
                  /\ pub[Len(pub)] = PruneCompleted

C4_Witness ==
    /\ ApplyRunValid
    /\ pc = "done"
    /\ chClosed
    /\ pub = <<InitEvent, ApplyUpdate("Failed", "a"), ApplyUpdate("Created", "b"),
               ApplyCompleted, PruneCompleted>>

SucceededObjs ==
    {pub[i].obj : i \in {j \in 1..Len(pub) : IsApplyUpdate(pub[j]) /\ pub[j].op # "Failed"}}

\* C5: the member set an apply run stores holds the objects applied without
\* failure and none that failed; the destroy run that follows emits no Delete
\* event for a failed object and, when it completes, one for every stored
\* object: Deleted, or DeleteSkipped for an object annotated as retained.
C5_FailedNeverStored ==
    /\ (kind = "apply" /\ Call("Store", "-") \in Range(calls) /\ Mutating) =>
          /\ invLive
          /\ invData \cap FailedObjs(pub) = {}
          /\ invData = SucceededObjs
    /\ (kind = "destroy" /\ prev.stored) =>
          /\ \A i \in 1..Len(pub) : pub[i].obj \notin prev.failed
          /\ (chClosed /\ ~HasError) =>
                \A o \in prev.ok :
                    DeleteUpdate(IF o \in annotated THEN "DeleteSkipped" ELSE "Deleted", o)
                        \in Range(pub)

C5_Witness ==
    /\ kind = "destroy"
    /\ prev.stored
    /\ prev.failed = {"a"}
    /\ prev.ok = {"b"}
    /\ chClosed
    /\ pub = <<DeleteUpdate("Deleted", "b"), DeleteCompleted>>

\* C6: in a destroy run the marker deletion is attempted at most once, only
\* after Prune was called and has returned, no prune call follows it, every
\* tracked object was visited before it unless Prune failed, and the member
\* list is never stored.
C6_MarkerDeletedAfterPrune ==
    kind = "destroy" =>
        /\ Cardinality(MarkerDeletionIdx) <= 1
        /\ "Store" \notin CallOps
        /\ \A i \in MarkerDeletionIdx :
              /\ ~InPrune
              /\ \E j \in 1..(i - 1) : calls[j].op \in {"Load", "LoadFailed"}
              /\ \A j \in (i + 1)..Len(calls) : calls[j].op \notin PruneCallOps
              /\ ~PruneFailed =>
                    /\ cands = {}
                    /\ \A o \in invAtStart :
                          \E j \in 1..(i - 1) :
                              calls[j] \in {Call("Fetch", o), Call("Delete", o)}

C6_Witness ==
    /\ kind = "destroy"
    /\ pc = "done"
    /\ calls = <<Call("Load", "-"), Call("Delete", "a"), Call("Fetch", "b"),
                 Call("DeleteInventoryObj", "-")>>

\* C7: in a destroy run in which the marker deletion is attempted, Prune
\* returned no error and visited every recorded member.
C7_MarkerDeletedOnlyAfterFullPrune ==
    (kind = "destroy" /\ MarkerDeletionIdx # {}) =>
        /\ ~PruneFailed
        /\ cands = {}

C9_PruneEventsRelabeled ==
    kind = "destroy" =>
        /\ \A i \in 1..Len(pub) : pub[i].type # "Prune"
        /\ Len(DeleteUpdates) + (IF tpc = "send" THEN 1 ELSE 0) = Len(tempSent)
        /\ (tpc = "send" => msg = tempSent[Len(tempSent)])
        /\ \A i \in 1..Len(DeleteUpdates) :
              /\ i <= Len(tempSent)
              /\ DeleteUpdates[i].obj = tempSent[i].obj
              /\ \/ tempSent[i].op = "Pruned" /\ DeleteUpdates[i].op = "Deleted"
                 \/ tempSent[i].op = "PruneSkipped" /\ DeleteUpdates[i].op = "DeleteSkipped"

C9_Witness ==
    /\ kind = "destroy"
    /\ chClosed
    /\ \E u, v \in Objs :
          /\ tempSent = <<PruneUpdate("Pruned", u), PruneUpdate("PruneSkipped", v)>>
          /\ pub = <<DeleteUpdate("Deleted", u), DeleteUpdate("DeleteSkipped", v),
                     DeleteCompleted>>

\* A marker: an object carrying the inventory label with a non-blank value.
IsMarker(x) ==
    /\ ~x.isNil
    /\ x.hasObj
    /\ x.label.exists
    /\ \E i \in 1..Len(x.label.value) : x.label.value[i] # SP
IsOtherObject(x) == ~x.isNil /\ x.hasObj /\ ~IsMarker(x)
MarkersOf(b) == SelectSeq(b, IsMarker)
OthersOf(b) == SelectSeq(b, IsOtherObject)

\* C10: SplitInfos and SplitUnstructureds classify a batch by its number of
\* markers: one marker yields it, the other objects in input order and no
\* error; none yields a nil marker and NoInventoryObjError; several yield a
\* nil marker and MultipleInventoryObjError listing them in input order.
C10_SplitClassifies ==
    splitFn # "none" =>
        LET m == MarkersOf(batch)
        IN  IF Len(m) = 1
            THEN /\ splitOut.inv = m[1]
                 /\ splitOut.resources = OthersOf(batch)
                 /\ splitOut.err = NoErr
            ELSE IF Len(m) = 0
            THEN /\ splitOut.inv = NilInfo
                 /\ splitOut.err = NoInventoryObjError
            ELSE /\ splitOut.inv = NilInfo
                 /\ splitOut.err = MultipleInventoryObjError(m)

\* The destroy run has read its manifests and split them.
DestroySplitDone ==
    /\ kind = "destroy"
    /\ pc \notin {"GetObjects", "SplitInfos"}
    /\ ErrorEvent("error reading resource manifests") \notin (Range(pub) \cup {pend})
ClearingError == ErrorEvent("error clearing inventory object")
RunESplitDone == "SplitUnstructureds" \in Range(runE.calls)

\* C11: a destroy whose input holds no inventory marker, or more than one,
\* is aborted before any mutation: Destroyer.Run sends one Error event and
\* closes the channel without starting the transformer, calling Prune or
\* deleting the marker, and DestroyRunner.RunE returns the error of the split
\* without calling Initialize or Run.
C11_NoMarkerAbortsDestroy ==
    /\ (DestroySplitDone /\ SplitInfos(infos).err.kind # "nil") =>
          /\ calls = <<>>
          /\ tpc = "idle"
          /\ tempSent = <<>>
          /\ pc \in {"send", "return", "done"}
          /\ IF pc = "send" THEN pub = <<>> /\ pend = ClearingError
                            ELSE pub = <<ClearingError>> /\ pend = NoEvent
          /\ (pc = "done" <=> chClosed)
    /\ (RunESplitDone /\ SplitUnstructureds(runE.objs).err.kind # "nil") =>
          /\ runE.pc = "returned"
          /\ runE.ret = SplitUnstructureds(runE.objs).err
          /\ runE.calls = <<"Read", "SplitUnstructureds">>

C11_Witness ==
    /\ kind = "destroy"
    /\ chClosed
    /\ SplitInfos(infos).err.kind = "MultipleInventoryObjError"
    /\ Len(infos) = 3
    /\ pub = <<ClearingError>>
    /\ calls = <<>>
    /\ tpc = "idle"

\* The events of pub that BasicPrinter.Print prints a line for.
PrintedEvents == {i \in 1..Len(pub) : pub[i].type \in {"Apply", "Prune", "Delete"}}

TerminalIdx == {i \in 1..Len(pub) : IsError(pub[i]) \/ pub[i] = DeleteCompleted}

\* C13: the events of a destroy run hold at most one terminal event, an Error
\* event or DeleteEventCompleted, and nothing is received, sent or held after
\* it; when the channel is closed there is exactly one, and it is the last
\* event. The channel is
\* closed once: by the run goroutine as it returns, which is then done.
C13_OneTerminalEvent ==
    /\ [](kind = "destroy" =>
            /\ Cardinality(TerminalIdx) <= 1
            /\ \A i \in TerminalIdx : i = Len(pub)
            /\ (TerminalIdx # {} => (pend = NoEvent /\ msg = NoEvent /\ pc \in {"return", "done"}))
            /\ (chClosed => (pub # <<>> /\ TerminalIdx = {Len(pub)} /\ pc = "done")))
    /\ [][(kind' = "destroy" /\ ~chClosed /\ chClosed') => (pc = "return" /\ pc' = "done")]_vars

C13_Witness ==
    /\ kind = "destroy"
    /\ chClosed
    /\ pc = "done"
    /\ pub = <<DeleteUpdate("DeleteSkipped", "a"), DeleteCompleted>>

\* C14 as stated: the first event received from a run, apply or destroy, is
\* an Init event.
C14_FirstEventIsInit ==
    (kind \in {"apply", "destroy"} /\ pub # <<>>) => pub[1] = InitEvent

\* C14: the first event received from an apply run is the Init event, and it
\* is the only one; a destroy run sends no Init event: its first event is a
\* Delete resource update, DeleteEventCompleted or an Error event.
C14_FirstEventByRunKind ==
    /\ (kind = "apply" /\ pub # <<>>) =>
          /\ pub[1] = InitEvent
          /\ \A i \in 2..Len(pub) : pub[i].type # "Init"
    /\ kind = "destroy" =>
          /\ \A i \in 1..Len(pub) : pub[i].type # "Init"
          /\ pend.type # "Init"
          /\ pub # <<>> =>
                (IsDeleteUpdate(pub[1]) \/ pub[1] = DeleteCompleted \/ IsError(pub[1]))

C14_Witness ==
    /\ kind = "destroy"
    /\ prev.kind = "apply"
    /\ prev.stored
    /\ chClosed
    /\ Len(pub) = 3
    /\ IsDeleteUpdate(pub[1])
    /\ pub[3] = DeleteCompleted

\* C15: under the Go scheduler, with a Prune that returns and a consumer that
\* receives until an Error event or the closure, every destroy run closes the
\* public channel; once it is closed the run goroutine is done, the
\* transformer was never started or has exited, and no event is being sent
\* or held.
C15_DestroyRunTerminates ==
    /\ (kind = "destroy" /\ ~chClosed) ~> chClosed
    /\ []((kind = "destroy" /\ chClosed) =>
            /\ pc = "done"
            /\ tpc \in {"idle", "done"}
            /\ pend = NoEvent
            /\ msg = NoEvent)

C15_Witness ==
    /\ kind = "destroy"
    /\ chClosed
    /\ tpc = "done"
    /\ cons.kind = "print"
    /\ cons.status = "returned"
    /\ cons.err = "error pruning resources"
    /\ Len(DeleteUpdates) = 1

\* The events Prune has sent that the consumer has not received.
Undelivered == Len(tempSent) - Len(DeleteUpdates)

\* C16: in a destroy run at most one event sent by Prune is undelivered, and
\* it is the one the transformer holds; while the consumer receives nothing
\* the transformer keeps holding it, and Prune completes a send only when
\* every earlier event has been received.
C16_Backpressure ==
    /\ [](kind = "destroy" =>
            /\ Undelivered \in {0, 1}
            /\ (Undelivered = 1 <=> tpc = "send")
            /\ (tpc = "send" => msg = tempSent[Len(tempSent)]))
    /\ [][(kind = "destroy" /\ tpc = "send" /\ pub' = pub /\ run' = run) =>
             (tpc' = "send" /\ msg' = msg /\ tempSent' = tempSent)]_vars
    /\ [][(kind = "destroy" /\ Len(tempSent') > Len(tempSent)) => Undelivered = 0]_vars

C16_Witness ==
    /\ kind = "destroy"
    /\ tpc = "send"
    /\ pc = "PruneSend"
    /\ pend = PruneUpdate("Pruned", "b")
    /\ msg = PruneUpdate("PruneSkipped", "a")
    /\ pub = <<>>

\* The objects the prune engine has visited in this run.
Visited == {calls[i].obj : i \in {j \in 1..Len(calls) : calls[j].op \in {"Fetch", "Delete"}}}

CallsOf(fn) == {i \in 1..Len(sfx.hist) : sfx.hist[i].fn = fn}
HasObject(info) == ~info.isNil /\ info.hasObj
Blank(s) == \A i \in 1..Len(s) : s[i] = SP

\* C19: fixLegacyInventoryName renames a marker named exactly "inventory" to
\* "inventory-<suffix>" with a non-blank suffix, in the Info and in the object
\* alike, and returns no error; a marker with another name is left as it is,
\* with no error; called again on its own result it changes nothing.
C19_LegacyNameFixedOnce ==
    \A i \in CallsOf("fixLegacyInventoryName") :
        LET h == sfx.hist[i]
        IN  /\ (HasObject(h.before) /\ h.before.name = legacyInvName
                   /\ h.before.objName = legacyInvName) =>
                  /\ h.err = "nil"
                  /\ ~Blank(h.suffix)
                  /\ h.after.name = legacyInvName \o Dash \o h.suffix
                  /\ h.after.objName = h.after.name
            /\ (HasObject(h.before) /\ h.before.name # legacyInvName
                   /\ h.before.objName # legacyInvName) =>
                  /\ h.err = "nil"
                  /\ h.after = h.before
            /\ (i > 1 /\ sfx.hist[i - 1].fn = "fixLegacyInventoryName"
                   /\ sfx.hist[i - 1].err = "nil") =>
                  /\ h.err = "nil"
                  /\ h.after = h.before

C19_Witness ==
    /\ Len(sfx.hist) = 2
    /\ sfx.hist[1].fn = "fixLegacyInventoryName"
    /\ sfx.hist[1].before = NameInfo(legacyInvName, legacyInvName)
    /\ sfx.hist[1].err = "nil"
    /\ sfx.hist[2].fn = "fixLegacyInventoryName"
    /\ sfx.info = NameInfo(legacyInvName \o Dash \o <<"y", "x">>,
                           legacyInvName \o Dash \o <<"y", "x">>)

\* A call of addSuffixToName was rejected: an error, both names as before.
Rejected(h) == h.err \notin {"nil", "panic"} /\ h.after = h.before
\* A call of addSuffixToName appended "-<suffix>", blanks trimmed, to both names.
Appended(h) ==
    /\ h.err = "nil"
    /\ h.after.name = h.before.name \o Dash \o TrimSpace(h.suffix)
    /\ h.after.objName = h.before.objName \o Dash \o TrimSpace(h.suffix)
\* The name handed to call i already carries a suffix: an earlier call
\* appended one.
SuffixedBefore(i) == \E j \in 1..(i - 1) : sfx.hist[j].err = "nil" /\ sfx.hist[j].after # sfx.hist[j].before

\* C20 as stated: addSuffixToName rejects a blank suffix, a name that
\* already carries a suffix, and an Info whose object is named differently,
\* and in all other cases appends the suffix to both names (a name that ends
\* with the suffix without an earlier call may fall in either case).
C20_RejectsAnySecondSuffix ==
    \A i \in CallsOf("addSuffixToName") :
        LET h == sfx.hist[i]
        IN  HasObject(h.before) =>
               IF \/ Blank(h.suffix)
                  \/ SuffixedBefore(i)
                  \/ h.before.objName # h.before.name
               THEN Rejected(h)
               ELSE Appended(h) \/ HasSuffix(h.before.name, Dash \o TrimSpace(h.suffix))

\* C20: addSuffixToName rejects a nil Info, a blank suffix, an Info whose
\* object is named differently, and a name that already ends with "-" and
\* the trimmed suffix being added; in all other cases it appends "-" and the
\* trimmed suffix to both names and returns no error, so that a second,
\* different suffix is appended after the first.
C20_RejectsSameSuffixOnly ==
    \A i \in CallsOf("addSuffixToName") :
        LET h == sfx.hist[i]
        IN  /\ h.before.isNil => Rejected(h)
            /\ HasObject(h.before) =>
                  IF \/ Blank(h.suffix)
                     \/ h.before.objName # h.before.name
                     \/ HasSuffix(h.before.name, Dash \o TrimSpace(h.suffix))
                  THEN Rejected(h)
                  ELSE Appended(h)

C20_Witness ==
    /\ Len(sfx.hist) = 2
    /\ sfx.hist[1].fn = "addSuffixToName"
    /\ sfx.hist[1].err = "nil"
    /\ sfx.hist[1].suffix = <<SP, "x">>
    /\ sfx.hist[2].fn = "addSuffixToName"
    /\ sfx.hist[2].err = "nil"
    /\ sfx.info = NameInfo(legacyInvName \o <<"-", "x", "-", "y">>,
                           legacyInvName \o <<"-", "x", "-", "y">>)

\* The events BasicPrinter.Print prints a line for, in the order received.
IsPrinted(e) == e.type \in {"Apply", "Prune", "Delete"}
Printed == SelectSeq(pub, IsPrinted)
\* The number of resource updates of type t with operation op among the
\* first n printed events.
CountBefore(n, t, op) ==
    Cardinality({j \in 1..(n - 1) :
        Printed[j].type = t /\ Printed[j].sub = "ResourceUpdate" /\ Printed[j].op = op})

\* C21: every summary line BasicPrinter.Print has printed carries the counts
\* of the resource updates received before its Completed event in this call:
\* pruned / skipped at PruneEventCompleted, deleted / skipped at
\* DeleteEventCompleted, and at ApplyEventCompleted created, unchanged,
\* configured and serverside-applied with their sum as the total.
C21_SummaryCountsProjectEvents ==
    (cons.kind = "print" /\ kind # "none") =>
        \A i \in 1..Len(cons.out) :
            /\ i <= Len(Printed)
            /\ Printed[i] = PruneCompleted =>
                  /\ cons.out[i].what = "pruned-summary"
                  /\ cons.out[i].n1 = CountBefore(i, "Prune", "Pruned")
                  /\ cons.out[i].n2 = CountBefore(i, "Prune", "PruneSkipped")
            /\ Printed[i] = DeleteCompleted =>
                  /\ cons.out[i].what = "deleted-summary"
                  /\ cons.out[i].n1 = CountBefore(i, "Delete", "Deleted")
                  /\ cons.out[i].n2 = CountBefore(i, "Delete", "DeleteSkipped")
            /\ Printed[i] = ApplyCompleted =>
                  /\ cons.out[i].what = "applied-summary"
                  /\ cons.out[i].n2 = CountBefore(i, "Apply", "Created")
                  /\ cons.out[i].n3 = CountBefore(i, "Apply", "Unchanged")
                  /\ cons.out[i].n4 = CountBefore(i, "Apply", "Configured")
                  /\ cons.out[i].n5 = CountBefore(i, "Apply", "ServersideApplied")
                  /\ cons.out[i].n1 = cons.out[i].n2 + cons.out[i].n3 + cons.out[i].n4
                                          + cons.out[i].n5
                  /\ cons.out[i].n1 = Cardinality({j \in 1..(i - 1) : IsApplyUpdate(Printed[j])})

C21_Witness ==
    /\ cons.kind = "print"
    /\ kind = "apply"
    /\ chClosed
    /\ Len(cons.out) = 4
    /\ Printed[2] = ApplyCompleted
    /\ cons.out[2].what = "applied-summary"
    /\ cons.out[2].n1 = 1
    /\ cons.out[2].n3 = 1
    /\ Printed[4] = PruneCompleted
    /\ cons.out[4].what = "pruned-summary"
    /\ cons.out[4].n1 = 1
    /\ cons.out[4].n2 = 0

\* The reorderings of a list without repetition.
Perms(s) == {t \in [1..Len(s) -> Range(s)] : Range(t) = Range(s)}

\* C22: the prune set a prune run computes from the old list Previous and
\* the new list Desired is the set difference Previous \ Desired: reordering
\* either list gives the same set, the set shares no element with Desired,
\* and with the elements common to both lists it makes up Previous.
C22_PruneSetIsSetDifference ==
    cmd.last = "prune" =>
        LET oldSet == Range(cmd.old)
            newSet == Range(cmd.new)
            pruneSet == Range(cmd.pruned)
        IN  /\ pruneSet = oldSet \ newSet
            /\ pruneSet \cap newSet = {}
            /\ (oldSet \cap newSet) \cup pruneSet = oldSet
            /\ \A o \in Perms(cmd.old), n \in Perms(cmd.new) :
                  Range(Differ(o, n)) = pruneSet

C22_Witness ==
    /\ cmd.last = "prune"
    /\ cmd.old = <<"a", "b", "c">>
    /\ cmd.new = <<"c", "a">>
    /\ cmd.pruned = <<"b">>
    /\ "b" \notin cmd.cluster

\* C23: when an object has been removed from the directory and the directory
\* is applied again, that apply run prunes the removed object: it is gone
\* from the cluster and from the list of the inventory ConfigMap.
C23_ReapplyPrunesRemoved ==
    (cmd.last = "apply" /\ HasInventory(cmd.dir)) =>
        \A o \in cmd.removed : o \notin cmd.cluster /\ o \notin Range(cmd.inv)

\* C25: cli-utils apply prints one applied line per object of the directory,
\* in directory order and the inventory ConfigMap included, then one line
\* "Resources: N" with N the number of applied lines, and returns no error,
\* whether or not the directory has an inventory ConfigMap.
C25_ApplyOutput ==
    cmd.last = "apply" =>
        LET n == Len(cmd.dir)
        IN  /\ cmd.err = NoErr
            /\ Len(cmd.out) = n + 1
            /\ \A i \in 1..n : cmd.out[i] = CmdLine("applied", cmd.dir[i].name, 0)
            /\ cmd.out[n + 1] = CmdLine("Resources", "-", n)
            /\ n = Cardinality({i \in 1..Len(cmd.out) : cmd.out[i].what = "applied"})

C25_Witness ==
    /\ cmd.last = "apply"
    /\ cmd.dir = <<InvObj, ResA>>
    /\ cmd.out = <<CmdLine("applied", "inv", 0), CmdLine("applied", "a", 0),
                   CmdLine("Resources", "-", 2)>>
    /\ cmd.err = NoErr
    /\ cmd.cluster = {"inv", "a"}

\* The operation a destroy run reports for a recorded member: decided by the
\* store as the run found it, whatever the dry-run strategy.
ExpectedDeleteOp(o) ==
    IF o \in liveAtStart /\ o \notin annotated THEN "Deleted" ELSE "DeleteSkipped"

\* C24: a destroy run with a dry-run strategy other than None changes
\* nothing in the remote store, neither an object nor the marker, and its
\* events are those of the run without dry run on the same store: one Delete
\* update per recorded member with the operation the store at the start
\* decides, and DeleteEventCompleted once every member was visited.
\* BasicPrinter ends every line with " (preview)" under ClientOnly, with
\* " (preview-server)" under ServerSide and with nothing under None.
C24_DryRunDestroy ==
    /\ [][(kind = "destroy" /\ dry # "None") => UNCHANGED storeVars]_vars
    /\ [](kind = "destroy" =>
            /\ dry # "None" => live = liveAtStart
            /\ \A i \in 1..Len(DeleteUpdates) :
                  /\ DeleteUpdates[i].obj \in invAtStart
                  /\ DeleteUpdates[i].op = ExpectedDeleteOp(DeleteUpdates[i].obj)
                  /\ \A j \in 1..Len(DeleteUpdates) :
                        DeleteUpdates[i].obj = DeleteUpdates[j].obj => i = j
            /\ (\E i \in 1..Len(pub) : pub[i] = DeleteCompleted) =>
                  {DeleteUpdates[i].obj : i \in 1..Len(DeleteUpdates)} = invAtStart
            /\ cons.kind = "print" =>
                  \A i \in 1..Len(cons.out) :
                      cons.out[i].suffix =
                          (CASE dry = "ClientOnly" -> " (preview)"
                             [] dry = "ServerSide" -> " (preview-server)"
                             [] OTHER -> ""))

C24_Witness ==
    /\ kind = "destroy"
    /\ dry = "ClientOnly"
    /\ chClosed
    /\ pub = <<DeleteUpdate("Deleted", "a"), DeleteUpdate("DeleteSkipped", "b"), DeleteCompleted>>
    /\ live = {"a"}
    /\ invLive
    /\ invData = {"a", "b"}
    /\ cons.kind = "print"
    /\ Len(cons.out) = 3
    /\ \A i \in 1..3 : cons.out[i].suffix = " (preview)"
    /\ \E i \in 1..Len(calls) : calls[i].op = "DeleteInventoryObj"

\* C26: the public channel of a destroy run has one writer at a time: the
\* run goroutine is at a send only while the transformer has not been started
\* or after it has signalled completion, the transformer is at a send only
\* while the run goroutine is inside Prune, and once the channel is closed
\* neither goroutine is at a send or holds an event to send.
C26_SingleWriter ==
    kind = "destroy" =>
        /\ pc = "send" => (tpc = "idle" \/ (tpc = "done" /\ completed))
        /\ tpc = "send" => pc \in {"PruneLoop", "PruneSend", "DeleteInventoryObj", "closeTemp",
                                   "waitCompleted"}
        /\ ~(pc = "send" /\ tpc = "send")
        /\ chClosed => (pc = "done" /\ tpc \in {"idle", "done"}
                           /\ pend = NoEvent /\ msg = NoEvent)

C26_Witness ==
    /\ kind = "destroy"
    /\ pc = "send"
    /\ pend = DeleteCompleted
    /\ tpc = "done"
    /\ completed
    /\ Len(pub) = 2
    /\ \A i \in 1..2 : IsDeleteUpdate(pub[i])

\* C27: in a destroy run the terminal event, DeleteEventCompleted or the
\* Error reporting the failure of Prune, is received only after every Delete
\* update of the run: when the run goroutine holds it for sending or it has
\* been received, every event Prune sent has been received as a Delete
\* update, before it, and the transformer holds nothing.
C27_DeleteUpdatesBeforeTerminal ==
    (kind = "destroy"
        /\ (pend \in {DeleteCompleted, ErrorEvent("error pruning resources")}
               \/ \E i \in 1..Len(pub) :
                     pub[i] \in {DeleteCompleted, ErrorEvent("error pruning resources")})) =>
        /\ msg = NoEvent
        /\ tpc = "done"
        /\ Len(DeleteUpdates) = Len(tempSent)
        /\ \A i \in 1..Len(tempSent) : DeleteUpdates[i] = Relabel(tempSent[i])
        /\ \A i \in 1..Len(pub) :
              IsDeleteUpdate(pub[i]) =>
                  \A j \in 1..Len(pub) :
                      pub[j] \in {DeleteCompleted, ErrorEvent("error pruning resources")}
                          => i < j

C27_Witness ==
    /\ kind = "destroy"
    /\ chClosed
    /\ Len(pub) = 2
    /\ pub[1] = DeleteUpdate("Deleted", "a")
    /\ pub[2] = ErrorEvent("error pruning resources")
    /\ Len(tempSent) = 1

IsStatusUpdate(e) == e.type = "Status" /\ e.sub = "ResourceUpdate"

\* The events that switch the immediate printing of statuses on or off.
IsStatusSwitch(e) == e = ApplyCompleted \/ e = StatusCompleted \/ e = StatusAborted

\* The i-th event arrives after an ApplyEventCompleted and with no status
\* Completed or Aborted event since.
AfterApplyCompleted(i) ==
    LET S == {j \in 1..(i - 1) : IsStatusSwitch(pub[j])}
    IN  S # {} /\ pub[CHOOSE j \in S : \A k \in S : k <= j] = ApplyCompleted

\* The status of resource o in its last update before the i-th event.
LatestBefore(o, i) ==
    LET S == {j \in 1..(i - 1) : IsStatusUpdate(pub[j]) /\ pub[j].obj = o}
    IN  pub[CHOOSE j \in S : \A k \in S : k <= j].op

\* The i-th event makes Print print about statuses.
PrintsStatus(i) ==
    \/ pub[i] = ApplyCompleted
    \/ pub[i].type = "Status" /\ (IsStatusUpdate(pub[i]) => AfterApplyCompleted(i))

StatusPrintIdx == SelectSeq([i \in 1..Len(pub) |-> i], PrintsStatus)

\* C28: Print prints a status update at once exactly when it arrives after
\* ApplyEventCompleted and before a status Completed or Aborted event; at
\* ApplyEventCompleted it prints one line for each resource that had an
\* update before, with the status of the latest of these updates.
C28_StatusPrinting ==
    (cons.kind = "print" /\ cons.status # "idle") =>
        /\ Len(cons.statusOut) = Len(StatusPrintIdx)
        /\ \A k \in 1..Len(StatusPrintIdx) :
              LET i == StatusPrintIdx[k]
                  e == pub[i]
                  s == cons.statusOut[k]
              IN  /\ e = ApplyCompleted =>
                        /\ s.what = "statuses"
                        /\ s.lines =
                             {[obj |-> o, status |-> LatestBefore(o, i)] :
                                 o \in {x \in Objs : \E j \in 1..(i - 1) :
                                           IsStatusUpdate(pub[j]) /\ pub[j].obj = x}}
                        /\ \A l1, l2 \in s.lines : l1.obj = l2.obj => l1 = l2
                  /\ IsStatusUpdate(e) =>
                        /\ s.what = "status"
                        /\ s.lines = {[obj |-> e.obj, status |-> e.op]}
                  /\ (e.type = "Status" /\ ~IsStatusUpdate(e)) => s.lines = {}

C28_Witness ==
    /\ cons.kind = "print"
    /\ pub = <<StatusUpdate("InProgress", "a"), StatusUpdate("Current", "a"),
               ApplyCompleted, StatusUpdate("InProgress", "b")>>
    /\ Len(cons.statusOut) = 2
    /\ cons.statusOut[1].what = "statuses"
    /\ cons.statusOut[1].lines = {[obj |-> "a", status |-> "Current"]}
    /\ cons.statusOut[2].lines = {[obj |-> "b", status |-> "InProgress"]}
    /\ cons.statusOut[2].what = "status"
    /\ cons.printStatus

\* The entries of a list that are neither nil nor without Object.
IsPresent(x) == ~x.isNil /\ x.hasObj

====
